---- MODULE Spec2Model ----
(***************************************************************************)
(* A model of maws/utils.py: the locked, cached, hash-verified download    *)
(* (download_from_url), archive extraction (extract_archive) and the       *)
(* module-level inference-mode toggle (start/reset_inference_mode).        *)
(*                                                                         *)
(* Three specifications share the variables:                               *)
(*   Spec           several processes calling download_from_url            *)
(*   SpecExtract    a sequence of extract_archive calls on one disk        *)
(*   SpecInference  a sequence of start/reset_inference_mode calls         *)
(***************************************************************************)
EXTENDS Integers, Sequences, FiniteSets, TLC

VARIABLES
    \* ---- download_from_url ----
    pc,          \* per process: position inside download_from_url
    req,         \* per process: the arguments of the current call, resolved
    result,      \* per process: outcome of the current / last call
    io,          \* per process: I/O the current call has performed
    prev,        \* per process: TRUE when the process's previous call returned a path and had
                 \* the URL and destination of the current one
    files,       \* destination path -> content on disk
    dirs,        \* directories that exist
    locks,       \* lock file -> holder (0 = free)
    ncalls,      \* download_from_url calls started so far
    menu,        \* the argument values the callers of this run draw from
    \* ---- extract_archive ----
    disk,        \* <<directory, name>> -> entry on disk (paths not in the domain are absent)
    xcall,       \* the last extract_archive call and its outcome
    xfirst,      \* <<archive name, to_path>> -> listing returned by its first extraction
    nextracts,   \* extract_archive calls so far
    \* ---- inference mode ----
    STACK,       \* the module global _STACK: 0 is None, n > 0 the n-th ExitStack
    openCtx,     \* inference-mode contexts entered and not yet exited
    nctx,        \* ExitStacks created so far
    infLog,      \* the calls made so far, in order
    infResult    \* outcome of the last call

dlVars == <<pc, req, result, io, prev, files, dirs, locks, ncalls, menu>>
xVars == <<disk, xcall, xfirst, nextracts>>
infVars == <<STACK, openCtx, nctx, infLog, infResult>>
vars == <<dlVars, xVars, infVars>>

(***************************************************************************)
(* Bounds                                                                  *)
(***************************************************************************)
NumProcs == 2
MaxCalls == 2
MaxExtracts == 3
MaxGzLen == 3
\* stands for default_block_size (65536 bytes), scaled to the payloads above
BlockSize == 2
MaxInfCalls == 6

Procs == 1..NumProcs

(***************************************************************************)
(* Paths are sequences of segments; "/" as first segment marks an absolute *)
(* path.  URLs are sequences of segments too.                              *)
(***************************************************************************)
None == <<>>

Cwd == <<"/", "cwd">>

\* os.path.abspath
AbsPath(p) == IF Len(p) > 0 /\ p[1] = "/" THEN p ELSE Cwd \o p

\* os.path.split: (head, tail)
SplitPath(p) == <<SubSeq(p, 1, Len(p) - 1), p[Len(p)]>>

\* os.path.join(dir, name)
JoinPath(d, name) == Append(d, name)

\* _CACHE_DIR and get_lock_dir(): <cache>/locks
CacheDir == <<"/", "cache", "text">>

LockDir == JoinPath(CacheDir, "locks")

\* the inputs of the calls
URLs == {<<"http:", "h", "a">>, <<"http:", "h", "b">>}

PathArgs == {None, <<"/", "d2", "a">>}

RootArgs == {<<".data">>, <<"/", "cwd", ".data">>}

HashTypes == {"sha256", "md5", "sha1"}

\* what the remote serves for a URL
Remote(url) == IF url[Len(url)] = "a" THEN "ca" ELSE "cb"

\* hashlib digest of a file content under an algorithm (collision free)
Digest(hash_type, content) == <<hash_type, content>>

HashArgs == {None, Digest("sha256", "ca")}

\* The callers of one run draw their arguments from one of these families:
\* destinations and overwrite varying (no hash), or hashes and algorithms
\* varying (one destination)
Menus ==
    { [urls |-> URLs, paths |-> PathArgs, roots |-> RootArgs,
       overwrites |-> BOOLEAN, hashes |-> {None}, types |-> {"sha256"}],
      [urls |-> URLs, paths |-> PathArgs \ {None}, roots |-> {<<".data">>},
       overwrites |-> {FALSE}, hashes |-> HashArgs, types |-> {"sha256", "sha1"}],
      [urls |-> URLs, paths |-> PathArgs \ {None}, roots |-> {<<".data">>},
       overwrites |-> {TRUE}, hashes |-> HashArgs \ {None}, types |-> HashTypes] }

\* lines 201-207: the destination path, its root and its filename
Resolve(url, path, root) ==
    IF path = None
    THEN [path |-> JoinPath(AbsPath(root), SplitPath(url)[2]),
          root |-> AbsPath(root),
          filename |-> SplitPath(url)[2]]
    ELSE [path |-> AbsPath(path),
          root |-> SplitPath(AbsPath(path))[1],
          filename |-> SplitPath(AbsPath(path))[2]]

DestPaths == {Resolve(u, p, r).path : u \in URLs, p \in PathArgs, r \in RootArgs}

FileNames == {Resolve(u, p, r).filename : u \in URLs, p \in PathArgs, r \in RootArgs}

\* line 212: the lock file of a call
LockPathMutGlobal(filename) == JoinPath(LockDir, ".lock")

LockPath(filename) == JoinPath(LockDir, <<filename, ".lock">>)

LockPaths == {LockPath(f) : f \in FileNames}

\* os.path.exists on a destination
Exists(fs, path) == fs[path] # "absent"

(***************************************************************************)
(* validate_file and _check_hash                                           *)
(***************************************************************************)
\* validate_file on a file object holding `content`: the error raised (if
\* any), whether the file object was read, and the boolean returned
ValidateFileMutAccept(content, hash_value, hash_type) ==
    IF hash_type \in {"sha256", "md5"}
    THEN [err |-> "none", read |-> TRUE, valid |-> TRUE]
    ELSE [err |-> "ValueError", read |-> FALSE, valid |-> FALSE]

ValidateFile(content, hash_value, hash_type) ==
    IF hash_type \in {"sha256", "md5"}
    THEN [err |-> "none", read |-> TRUE,
          valid |-> Digest(hash_type, content) = hash_value]
    ELSE [err |-> "ValueError", read |-> FALSE, valid |-> FALSE]

\* _check_hash on an existing file: opens it, then validates
CheckHash(content, hash_value, hash_type) ==
    LET v == ValidateFile(content, hash_value, hash_type)
    IN  [opened |-> TRUE,
         read |-> v.read,
         err |-> IF v.err # "none" THEN v.err
                 ELSE IF ~v.valid THEN "IntegrityError"
                 ELSE "none"]

NoIO == [opened |-> FALSE, read |-> FALSE, transfers |-> 0, checked |-> FALSE]

NoReq == [url |-> None, path |-> None, root |-> None, filename |-> "",
          overwrite |-> FALSE, hash_value |-> None, hash_type |-> "sha256"]

\* kind: "none" while the call runs, "returned" when it returned `path`, else
\* the error raised; holder: for a lock timeout, the destination path of the
\* process that held the lock
NoResult == [kind |-> "none", path |-> None, holder |-> None]

Returned(path) == [kind |-> "returned", path |-> path, holder |-> None]

Raised(err) == [kind |-> err, path |-> None, holder |-> None]

(***************************************************************************)
(* extract_archive.  File names are sequences of characters; a path on     *)
(* disk is <<directory, name>>.                                            *)
(***************************************************************************)
Min(a, b) == IF a <= b THEN a ELSE b

\* str.endswith
EndsWith(name, suffix) ==
    /\ Len(name) >= Len(suffix)
    /\ SubSeq(name, Len(name) - Len(suffix) + 1, Len(name)) = suffix

SufTarGz == <<".", "t", "a", "r", ".", "g", "z">>

SufTgz == <<".", "t", "g", "z">>

SufZip == <<".", "z", "i", "p">>

SufGz == <<".", "g", "z">>

\* lines 265, 281, 298, 314: the branch taken for a file name
FormatMutGzFirst(name) ==
    IF EndsWith(name, SufGz) THEN "gz"
    ELSE IF EndsWith(name, SufTarGz) \/ EndsWith(name, SufTgz) THEN "tar"
    ELSE IF EndsWith(name, SufZip) THEN "zip"
    ELSE "unsupported"

Format(name) ==
    IF EndsWith(name, SufTarGz) \/ EndsWith(name, SufTgz) THEN "tar"
    ELSE IF EndsWith(name, SufZip) THEN "zip"
    ELSE IF EndsWith(name, SufGz) THEN "gz"
    ELSE "unsupported"

\* disk entries
Absent == [kind |-> "absent", data |-> <<>>]

DirEntry == [kind |-> "dir", data |-> <<>>]

FileEntry(data) == [kind |-> "file", data |-> data]

At(d, p) == IF p \in DOMAIN d THEN d[p] ELSE Absent

Put(d, p, e) == [q \in DOMAIN d \cup {p} |-> IF q = p THEN e ELSE d[q]]

\* a member name with a trailing "/" names a directory (ZipInfo.is_dir)
IsDirName(name) == Len(name) > 0 /\ name[Len(name)] = "/"

NormName(name) == IF IsDirName(name) THEN SubSeq(name, 1, Len(name) - 1) ELSE name

\* os.path.exists / os.path.isfile on os.path.join(to, name): a path with a
\* trailing separator resolves only if it is a directory
OsExists(d, to, name) ==
    IF IsDirName(name) THEN At(d, <<to, NormName(name)>>).kind = "dir"
    ELSE At(d, <<to, name>>).kind # "absent"

OsIsFile(d, to, name) == ~IsDirName(name) /\ At(d, <<to, name>>).kind = "file"

\* tarfile's / zipfile's extract of one member onto the disk.  A directory
\* member whose path is a regular file: zipfile raises; tarfile raises or
\* leaves the file alone, depending on the library version (strict)
ExtractMember(d, to, m, strict) ==
    LET p == <<to, NormName(m.name)>>
    IN  IF m.kind = "dir"
        THEN IF At(d, p).kind = "file"
             THEN [disk |-> d, err |-> IF strict THEN "FileExistsError" ELSE "none"]
             ELSE [disk |-> Put(d, p, DirEntry), err |-> "none"]
        ELSE IF At(d, p).kind = "dir"
             THEN [disk |-> d, err |-> "IsADirectoryError"]
             ELSE [disk |-> Put(d, p, FileEntry(m.data)), err |-> "none"]

\* lines 271-276: a regular-file member that exists is skipped unless overwrite
TarSkipMutNever(d, to, m, overwrite) == FALSE

TarSkip(d, to, m, overwrite) ==
    m.kind = "file" /\ OsExists(d, to, m.name) /\ ~overwrite

\* lines 269-277: the loop over the members of a tar archive
RECURSIVE TarLoop(_, _, _, _, _, _)
TarLoop(entries, to, overwrite, d, listing, strict) ==
    IF entries = <<>>
    THEN [disk |-> d, files |-> listing, err |-> "none"]
    ELSE LET m == Head(entries)
             listed == IF m.kind = "file" THEN Append(listing, <<to, m.name>>)
                       ELSE listing
         IN  IF TarSkip(d, to, m, overwrite)
             THEN TarLoop(Tail(entries), to, overwrite, d, listed, strict)
             ELSE LET r == ExtractMember(d, to, m, strict)
                  IN  IF r.err # "none"
                      THEN [disk |-> r.disk, files |-> <<>>, err |-> r.err]
                      ELSE TarLoop(Tail(entries), to, overwrite, r.disk, listed, strict)

\* lines 289-292: a member whose path exists is skipped unless overwrite
ZipSkip(d, to, m, overwrite) == OsExists(d, to, m.name) /\ ~overwrite

\* lines 286-293: the loop over the namelist of a zip archive
RECURSIVE ZipLoop(_, _, _, _, _)
ZipLoop(entries, to, overwrite, d, listing) ==
    IF entries = <<>>
    THEN [disk |-> d, files |-> listing, err |-> "none"]
    ELSE LET m == Head(entries)
             listed == Append(listing, <<to, m.name>>)
         IN  IF ZipSkip(d, to, m, overwrite)
             THEN ZipLoop(Tail(entries), to, overwrite, d, listed)
             ELSE LET r == ExtractMember(d, to, m, TRUE)
                  IN  IF r.err # "none"
                      THEN [disk |-> r.disk, files |-> <<>>, err |-> r.err]
                      ELSE ZipLoop(Tail(entries), to, overwrite, r.disk, listed)

\* line 294: files = [f for f in files if os.path.isfile(f)]
ZipFilterMutKeepAll(d, listing) == listing

ZipFilter(d, listing) ==
    LET IsFilePath(f) == OsIsFile(d, f[1], f[2])
    IN  SelectSeq(listing, IsFilePath)

\* lines 304-309: the read loop; `block` is the value of the last read
RECURSIVE GzLoop(_, _)
GzLoop(rest, out) ==
    LET block == SubSeq(rest, 1, Min(BlockSize, Len(rest)))
    IN  IF block = <<>>
        THEN [out |-> out, block |-> block]
        ELSE GzLoop(SubSeq(rest, Len(block) + 1, Len(rest)), out \o block)

\* the last non-empty block read from a stream
LastBlock(data) ==
    IF data = <<>> THEN <<>>
    ELSE SubSeq(data, ((Len(data) - 1) \div BlockSize) * BlockSize + 1, Len(data))

\* lines 303-310: what is written to the output file
GzWrittenMutDuplicate(data) == data \o LastBlock(data)

GzWritten(data) ==
    LET r == GzLoop(data, <<>>)
    IN  r.out \o r.block

(***************************************************************************)
(* The archives the calls are made on, and extract_archive's branches      *)
(***************************************************************************)
\* what the archive file holds: the readers that can open it, and its members
TarA == [name |-> <<"a", ".", "t", "a", "r", ".", "g", "z">>, formats |-> {"tar", "gz"},
         entries |-> << [name |-> <<"f">>, kind |-> "file", data |-> <<1>>],
                        [name |-> <<"d">>, kind |-> "dir", data |-> <<>>],
                        [name |-> <<"g">>, kind |-> "file", data |-> <<0>>] >>]

TarB == [name |-> <<"b", ".", "t", "g", "z">>, formats |-> {"tar", "gz"},
         entries |-> << [name |-> <<"f">>, kind |-> "file", data |-> <<0, 1>>],
                        [name |-> <<"g">>, kind |-> "dir", data |-> <<>>] >>]

ZipA == [name |-> <<"c", ".", "z", "i", "p">>, formats |-> {"zip"},
         entries |-> << [name |-> <<"d", "/">>, kind |-> "dir", data |-> <<>>],
                        [name |-> <<"f">>, kind |-> "file", data |-> <<1, 1>>],
                        [name |-> <<"h">>, kind |-> "file", data |-> <<1, 0>>] >>]

ZipB == [name |-> <<"e", ".", "z", "i", "p">>, formats |-> {"zip"},
         entries |-> << [name |-> <<"d">>, kind |-> "file", data |-> <<0, 0>>] >>]

NotZip == [name |-> <<"n", ".", "z", "i", "p">>, formats |-> {}, entries |-> <<>>]

GzW == [name |-> <<"w", ".", "g", "z">>, formats |-> {"gz"}, entries |-> <<>>]

RarR == [name |-> <<"r", ".", "r", "a", "r">>, formats |-> {}, entries |-> <<>>]

Archives == {TarA, TarB, ZipA, ZipB, NotZip, GzW, RarR}

\* the decompressed streams a gzip file may hold
Payloads == UNION {[1..n -> {0, 1}] : n \in 0..MaxGzLen}

\* os.path.dirname(from_path): every archive lies in this directory
SrcDir == <<"src">>

ToArgs == {None, <<"out">>}

\* lines 262-263
ToPath(to_path) == IF to_path = None THEN SrcDir ELSE to_path

\* the last call: its archive, the arguments its branch read (to, overwrite),
\* the branch taken, the error raised, the listing returned and, for gzip,
\* the stream the archive held
NoCall == [name |-> <<>>, to |-> None, overwrite |-> FALSE, handler |-> "none",
           err |-> "none", files |-> <<>>, data |-> <<>>]

\* the listing of the first extraction of an archive into a directory is kept
Remember(a, to, err, listing) ==
    IF err = "none" /\ <<a.name, to>> \notin DOMAIN xfirst
    THEN Put(xfirst, <<a.name, to>>, listing)
    ELSE xfirst

\* lines 265-279
ExtractTar ==
    \E a \in Archives, to_path \in ToArgs, overwrite \in BOOLEAN, strict \in BOOLEAN :
        /\ nextracts < MaxExtracts
        /\ Format(a.name) = "tar"
        /\ LET to == ToPath(to_path)
               r == IF "tar" \in a.formats
                    THEN TarLoop(a.entries, to, overwrite, disk, <<>>, strict)
                    ELSE [disk |-> disk, files |-> <<>>, err |-> "ReadError"]
           IN  /\ disk' = r.disk
               /\ xcall' = [name |-> a.name, to |-> to, overwrite |-> overwrite,
                            handler |-> "tar", err |-> r.err, files |-> r.files,
                            data |-> <<>>]
               /\ xfirst' = Remember(a, to, r.err, r.files)
        /\ nextracts' = nextracts + 1
        /\ UNCHANGED <<dlVars, infVars>>

\* lines 281-296
ExtractZip ==
    \E a \in Archives, to_path \in ToArgs, overwrite \in BOOLEAN :
        /\ nextracts < MaxExtracts
        /\ Format(a.name) = "zip"
        /\ LET to == ToPath(to_path)
               r == IF "zip" \in a.formats
                    THEN ZipLoop(a.entries, to, overwrite, disk, <<>>)
                    ELSE [disk |-> disk, files |-> <<>>, err |-> "AssertionError"]
               listing == IF r.err = "none" THEN ZipFilter(r.disk, r.files) ELSE <<>>
           IN  /\ disk' = r.disk
               /\ xcall' = [name |-> a.name, to |-> to, overwrite |-> overwrite,
                            handler |-> "zip", err |-> r.err, files |-> listing,
                            data |-> <<>>]
               /\ xfirst' = Remember(a, to, r.err, listing)
        /\ nextracts' = nextracts + 1
        /\ UNCHANGED <<dlVars, infVars>>

\* lines 298-312: the output is from_path without its last three characters,
\* in the directory of from_path; to_path and overwrite are not read
ExtractGz ==
    \E a \in Archives, data \in Payloads :
        /\ nextracts < MaxExtracts
        /\ Format(a.name) = "gz"
        /\ LET out == <<SrcDir, SubSeq(a.name, 1, Len(a.name) - 3)>>
               r == IF At(disk, out).kind = "dir"
                    THEN [disk |-> disk, err |-> "IsADirectoryError"]
                    ELSE IF "gz" \notin a.formats
                    THEN [disk |-> Put(disk, out, FileEntry(<<>>)), err |-> "BadGzipFile"]
                    ELSE [disk |-> Put(disk, out, FileEntry(GzWritten(data))),
                          err |-> "none"]
           IN  /\ disk' = r.disk
               /\ xcall' = [name |-> a.name, to |-> None, overwrite |-> FALSE,
                            handler |-> "gz", err |-> r.err,
                            files |-> IF r.err = "none" THEN <<out>> ELSE <<>>,
                            data |-> data]
               /\ xfirst' = Remember(a, None, r.err, <<out>>)
        /\ nextracts' = nextracts + 1
        /\ UNCHANGED <<dlVars, infVars>>

\* lines 314-317; to_path and overwrite are not read
ExtractUnsupported ==
    \E a \in Archives :
        /\ nextracts < MaxExtracts
        /\ Format(a.name) = "unsupported"
        /\ xcall' = [name |-> a.name, to |-> None, overwrite |-> FALSE,
                     handler |-> "unsupported", err |-> "NotImplementedError",
                     files |-> <<>>, data |-> <<>>]
        /\ nextracts' = nextracts + 1
        /\ UNCHANGED <<disk, xfirst, dlVars, infVars>>

NextExtract == ExtractTar \/ ExtractZip \/ ExtractGz \/ ExtractUnsupported

(***************************************************************************)
(* start_inference_mode / reset_inference_mode                             *)
(***************************************************************************)
Devices == {"cpu", "cuda"}

\* line 30: `if _STACK is None`
NotStartedMutAlways == TRUE

NotStarted == STACK = 0

\* lines 28-32; `device` is not read
StartInferenceMode ==
    \E device \in Devices :
        /\ Len(infLog) < MaxInfCalls
        /\ IF NotStarted
           THEN /\ nctx' = nctx + 1
                /\ STACK' = nctx + 1
                /\ openCtx' = openCtx \cup {nctx + 1}
           ELSE UNCHANGED <<nctx, STACK, openCtx>>
        /\ infResult' = "ok"
        /\ infLog' = Append(infLog, "start")
        /\ UNCHANGED <<dlVars, xVars>>

\* lines 35-38: None has no close(), so line 37 raises before line 38
ResetInferenceMode ==
    /\ Len(infLog) < MaxInfCalls
    /\ IF STACK = 0
       THEN /\ infResult' = "AttributeError"
            /\ UNCHANGED <<STACK, openCtx>>
       ELSE /\ openCtx' = openCtx \ {STACK}
            /\ STACK' = 0
            /\ infResult' = "ok"
    /\ infLog' = Append(infLog, "reset")
    /\ UNCHANGED <<nctx, dlVars, xVars>>

NextInference == StartInferenceMode \/ ResetInferenceMode

(***************************************************************************)
(* download_from_url, one action per step                                  *)
(***************************************************************************)
TheLock(p) == LockPath(req[p].filename)

\* FileLock.acquire succeeds only while no other process holds the lock file
LockFreeMutNoLock(l) == TRUE

LockFree(l) == locks[l] = 0

\* leaving the `with lock:` block, by return or by exception
Release(p) == locks' = [locks EXCEPT ![TheLock(p)] = 0]

\* line 215-217: the branch that returns the existing path
SkipDownloadMutInverted(p) == Exists(files, req[p].path) /\ req[p].overwrite

SkipDownload(p) == Exists(files, req[p].path) /\ ~req[p].overwrite

\* a call starts: lines 200-212 (path resolution, get_lock_dir, FileLock)
Call(p) ==
    /\ pc[p] \in {"idle", "done"}
    /\ ncalls < MaxCalls
    /\ \E url \in menu.urls, path \in menu.paths, root \in menu.roots,
          overwrite \in menu.overwrites, hash_value \in menu.hashes,
          hash_type \in menu.types :
          LET r == Resolve(url, path, root)
          IN  /\ req' = [req EXCEPT ![p] =
                           [url |-> url, path |-> r.path, root |-> r.root,
                            filename |-> r.filename, overwrite |-> overwrite,
                            hash_value |-> hash_value, hash_type |-> hash_type]]
              /\ prev' = [prev EXCEPT ![p] =
                            /\ result[p].kind = "returned"
                            /\ req[p].url = url
                            /\ req[p].path = r.path]
    /\ result' = [result EXCEPT ![p] = NoResult]
    /\ io' = [io EXCEPT ![p] = NoIO]
    /\ dirs' = dirs \cup {LockDir}
    /\ pc' = [pc EXCEPT ![p] = "acquire"]
    /\ ncalls' = ncalls + 1
    /\ UNCHANGED <<files, locks, menu, xVars, infVars>>

\* line 213: `with lock:` entered
Acquire(p) ==
    /\ pc[p] = "acquire"
    /\ LockFree(TheLock(p))
    /\ locks' = [locks EXCEPT ![TheLock(p)] = p]
    /\ pc' = [pc EXCEPT ![p] = "locked"]
    /\ UNCHANGED <<req, result, io, prev, files, dirs, ncalls, menu, xVars, infVars>>

\* line 212-213: the lock stayed held by another process for LOCK_TIMEOUT
\* seconds (a transfer takes arbitrarily long): filelock.Timeout is raised
LockTimeout(p) ==
    /\ pc[p] = "acquire"
    /\ ~LockFree(TheLock(p))
    /\ result' = [result EXCEPT ![p] =
                    [kind |-> "Timeout", path |-> None,
                     holder |-> req[locks[TheLock(p)]].path]]
    /\ pc' = [pc EXCEPT ![p] = "done"]
    /\ UNCHANGED <<req, io, prev, files, dirs, locks, ncalls, menu, xVars, infVars>>

\* lines 215-220: the destination exists and overwrite is false
ReturnExisting(p) ==
    /\ pc[p] = "locked"
    /\ SkipDownload(p)
    /\ IF req[p].hash_value # None
       THEN LET c == CheckHash(files[req[p].path], req[p].hash_value, req[p].hash_type)
            IN  /\ io' = [io EXCEPT ![p].opened = c.opened, ![p].read = c.read,
                                    ![p].checked = TRUE]
                /\ result' = [result EXCEPT ![p] =
                                IF c.err = "none" THEN Returned(req[p].path)
                                ELSE Raised(c.err)]
       ELSE /\ io' = io
            /\ result' = [result EXCEPT ![p] = Returned(req[p].path)]
    /\ Release(p)
    /\ pc' = [pc EXCEPT ![p] = "done"]
    /\ UNCHANGED <<req, prev, files, dirs, ncalls, menu, xVars, infVars>>

\* lines 222-225: the download goes ahead; the root directory is made
PrepareRoot(p) ==
    /\ pc[p] = "locked"
    /\ ~SkipDownload(p)
    /\ dirs' = dirs \cup {req[p].root}
    /\ pc' = [pc EXCEPT ![p] = "fetch"]
    /\ UNCHANGED <<req, result, io, prev, files, locks, ncalls, menu, xVars, infVars>>

\* lines 226-227: os.makedirs fails
MakedirsFails(p) ==
    /\ pc[p] = "locked"
    /\ ~SkipDownload(p)
    /\ req[p].root \notin dirs
    /\ result' = [result EXCEPT ![p] = Raised("OSError")]
    /\ Release(p)
    /\ pc' = [pc EXCEPT ![p] = "done"]
    /\ UNCHANGED <<req, io, prev, files, dirs, ncalls, menu, xVars, infVars>>

\* line 230, the transfer backend: it fails before writing anything
TransferRefused(p) ==
    /\ pc[p] = "fetch"
    /\ result' = [result EXCEPT ![p] = Raised("TransferError")]
    /\ Release(p)
    /\ pc' = [pc EXCEPT ![p] = "done"]
    /\ UNCHANGED <<req, io, prev, files, dirs, ncalls, menu, xVars, infVars>>

\* line 230, the transfer backend: it starts writing the destination
TransferBegin(p) ==
    /\ pc[p] = "fetch"
    /\ files' = [files EXCEPT ![req[p].path] = "partial"]
    /\ io' = [io EXCEPT ![p].transfers = @ + 1]
    /\ pc' = [pc EXCEPT ![p] = "transferring"]
    /\ UNCHANGED <<req, result, prev, dirs, locks, ncalls, menu, xVars, infVars>>

\* line 230, the transfer backend: it fails midway
TransferFails(p) ==
    /\ pc[p] = "transferring"
    /\ result' = [result EXCEPT ![p] = Raised("TransferError")]
    /\ Release(p)
    /\ pc' = [pc EXCEPT ![p] = "done"]
    /\ UNCHANGED <<req, io, prev, files, dirs, ncalls, menu, xVars, infVars>>

\* line 230, the transfer backend: the destination is written in full
TransferEnd(p) ==
    /\ pc[p] = "transferring"
    /\ files' = [files EXCEPT ![req[p].path] = Remote(req[p].url)]
    /\ pc' = [pc EXCEPT ![p] = "downloaded"]
    /\ UNCHANGED <<req, result, io, prev, dirs, locks, ncalls, menu, xVars, infVars>>

\* lines 232-239: validate the fresh download and return its path
ValidateDownload(p) ==
    /\ pc[p] = "downloaded"
    /\ IF req[p].hash_value # None
       THEN LET c == CheckHash(files[req[p].path], req[p].hash_value, req[p].hash_type)
            IN  /\ io' = [io EXCEPT ![p].opened = c.opened, ![p].read = c.read,
                                    ![p].checked = TRUE]
                /\ result' = [result EXCEPT ![p] =
                                IF c.err = "none" THEN Returned(req[p].path)
                                ELSE Raised(c.err)]
       ELSE /\ io' = io
            /\ result' = [result EXCEPT ![p] = Returned(req[p].path)]
    /\ Release(p)
    /\ pc' = [pc EXCEPT ![p] = "done"]
    /\ UNCHANGED <<req, prev, files, dirs, ncalls, menu, xVars, infVars>>

InitDownload ==
    /\ pc = [p \in Procs |-> "idle"]
    /\ req = [p \in Procs |-> NoReq]
    /\ result = [p \in Procs |-> NoResult]
    /\ io = [p \in Procs |-> NoIO]
    /\ prev = [p \in Procs |-> FALSE]
    /\ files = [d \in DestPaths |-> "absent"]
    /\ dirs = {}
    /\ locks = [l \in LockPaths |-> 0]
    /\ ncalls = 0

InitExtract ==
    /\ disk = <<>>
    /\ xcall = NoCall
    /\ xfirst = <<>>
    /\ nextracts = 0

InitInference ==
    /\ STACK = 0
    /\ openCtx = {}
    /\ nctx = 0
    /\ infLog = <<>>
    /\ infResult = "none"

\* no download_from_url caller in the runs of the other specifications
NoMenu == [urls |-> {}, paths |-> {}, roots |-> {}, overwrites |-> {},
           hashes |-> {}, types |-> {}]

Init == InitDownload /\ menu \in Menus /\ InitExtract /\ InitInference

InitNoDownload == InitDownload /\ menu = NoMenu /\ InitExtract /\ InitInference

NextDownload ==
    \E p \in Procs :
        \/ Call(p)
        \/ Acquire(p)
        \/ LockTimeout(p)
        \/ ReturnExisting(p)
        \/ PrepareRoot(p)
        \/ MakedirsFails(p)
        \/ TransferRefused(p)
        \/ TransferBegin(p)
        \/ TransferFails(p)
        \/ TransferEnd(p)
        \/ ValidateDownload(p)

Spec == Init /\ [][NextDownload]_vars

SpecExtract == InitNoDownload /\ [][NextExtract]_vars

SpecInference == InitNoDownload /\ [][NextInference]_vars

(***************************************************************************)
(* Properties of download_from_url                                         *)
(***************************************************************************)
\* inside the `with lock:` block
InCS(p) == pc[p] \in {"locked", "fetch", "transferring", "downloaded"}

\* p is blocked in FileLock.acquire by q
WaitsOn(p, q) == pc[p] = "acquire" /\ locks[TheLock(p)] = q

\* the step in which p's call returns its path
Returns(p) == result[p].kind # "returned" /\ result'[p].kind = "returned"

\* the step in which p's call starts a transfer
StartsTransfer(p) == io'[p].transfers > io[p].transfers

\* C1: a call that repeats the URL and destination of the caller's previous,
\* successful call with overwrite=false performs no transfer; without a hash
\* it returns the existing path without opening the file (unless the lock
\* times out), with a hash it validates the existing file before returning.
C1_SecondCallNoTransfer ==
    \A p \in Procs :
        (prev[p] /\ ~req[p].overwrite) =>
            /\ io[p].transfers = 0
            /\ pc[p] \notin {"fetch", "transferring", "downloaded"}
            /\ (pc[p] = "done" /\ req[p].hash_value = None) =>
                  /\ result[p] \in {Returned(req[p].path)}
                        \cup {r \in {result[p]} : r.kind = "Timeout"}
                  /\ ~io[p].opened /\ ~io[p].checked
            /\ (pc[p] = "done" /\ req[p].hash_value # None
                   /\ result[p].kind # "Timeout") =>
                  /\ io[p].checked /\ io[p].opened
                  /\ result[p].kind \in {"returned", "IntegrityError", "ValueError"}
                  /\ result[p].kind = "returned" => result[p].path = req[p].path

C1_Witness ==
    \E p \in Procs :
        /\ prev[p] /\ ~req[p].overwrite /\ req[p].hash_value # None
        /\ pc[p] = "done" /\ result[p] = Returned(req[p].path)
        /\ io[p].checked /\ io[p].transfers = 0

C3_Original ==
    \A p, q \in Procs :
        (p # q /\ req[p].path # req[q].path) =>
            /\ ~WaitsOn(p, q)
            /\ result[p].kind = "Timeout" => result[p].holder # req[q].path

\* C3, amended: two calls whose destination filenames (the last component of
\* the destination path) differ never wait on, or time out on, a lock held by
\* the other.
C3_DifferentNamesNeverContend ==
    /\ \A p, q \in Procs :
          (p # q /\ req[p].filename # req[q].filename) => ~WaitsOn(p, q)
    /\ \A p \in Procs :
          result[p].kind = "Timeout" =>
              SplitPath(result[p].holder)[2] = req[p].filename

C3_Witness ==
    \E p, q \in Procs :
        /\ req[p].filename # req[q].filename
        /\ pc[p] = "transferring" /\ pc[q] = "transferring"

\* C4 as stated: the configuration error (unsupported hash algorithm) is
\* raised before any file is opened and before any transfer.
C4_Original ==
    \A p \in Procs :
        result[p].kind = "ValueError" => (~io[p].opened /\ io[p].transfers = 0)

\* C5: a hash mismatch, on a cached file or on a fresh download, ends the call
\* with the integrity error and no path; the step that finds the mismatch
\* leaves every file as it was, and the call transfers nothing afterwards.
C5_MismatchIsFatalAndFileKept ==
    /\ [](\A p \in Procs :
             result[p].kind = "IntegrityError" =>
                 (pc[p] = "done" /\ result[p].path = None))
    /\ [][\A p \in Procs :
             /\ ( /\ ((pc[p] = "locked" /\ SkipDownload(p)) \/ pc[p] = "downloaded")
                   /\ pc'[p] = "done"
                   /\ req[p].hash_value # None
                   /\ req[p].hash_type \in {"sha256", "md5"}
                   /\ Digest(req[p].hash_type, files[req[p].path]) # req[p].hash_value )
                 => result'[p].kind = "IntegrityError"
             /\ (result[p].kind # "IntegrityError"
                   /\ result'[p].kind = "IntegrityError") =>
                   /\ files' = files
                   /\ Exists(files, req[p].path)
             /\ (result'[p].kind = "IntegrityError") =>
                   io'[p].transfers = io[p].transfers]_vars

C5_Witness ==
    \E p, q \in Procs :
        /\ result[p].kind = "IntegrityError" /\ io[p].transfers = 0
        /\ result[q].kind = "IntegrityError" /\ io[q].transfers > 0
        /\ files[req[p].path] = "cb"
(***************************************************************************)
(* Properties of extract_archive                                           *)
(***************************************************************************)
ArchiveNamed(n) == CHOOSE a \in Archives : a.name = n

\* the step is an extract_archive call
Extracts == nextracts' > nextracts

Range(seq) == {seq[i] : i \in DOMAIN seq}

\* in archive order, the paths of the members that are in `keep`
PathsOf(entries, to, keep) ==
    LET InKeep(m) == m \in keep
        kept == SelectSeq(entries, InKeep)
    IN  [i \in 1..Len(kept) |-> <<to, kept[i].name>>]

\* the regular-file members of an archive
FileMembers(entries) == {m \in Range(entries) : m.kind = "file"}

\* C6: re-extracting a tar archive with overwrite=false where its regular
\* files already exist returns the listing of the first extraction (every
\* regular-file member, in archive order) and changes no existing file.
C6_ReextractKeepsFiles ==
    [][LET c == xcall'
           key == <<c.name, c.to>>
           all == PathsOf(ArchiveNamed(c.name).entries, c.to,
                          FileMembers(ArchiveNamed(c.name).entries))
       IN  ( /\ Extracts
             /\ c.handler = "tar" /\ c.err = "none" /\ ~c.overwrite
             /\ key \in DOMAIN xfirst
             /\ \A p \in Range(all) : At(disk, p).kind = "file" )
           => /\ c.files = xfirst[key]
              /\ c.files = all
              /\ \A p \in DOMAIN disk :
                    disk[p].kind = "file" => At(disk', p) = disk[p]]_vars

C6_Witness ==
    /\ nextracts = 3
    /\ xcall.name = TarA.name /\ xcall.handler = "tar"
    /\ xcall.err = "none" /\ ~xcall.overwrite
    /\ <<TarA.name, xcall.to>> \in DOMAIN xfirst
    /\ xcall.files = << <<xcall.to, <<"f">> >>, <<xcall.to, <<"g">> >> >>
    /\ At(disk, <<xcall.to, <<"f">> >>) = FileEntry(<<0, 1>>)
    /\ At(disk, <<xcall.to, <<"g">> >>) = FileEntry(<<0>>)

\* C7: the branch is chosen from the suffix alone, .tar.gz/.tgz before .zip
\* before .gz, so a .tar.gz name is read as tar and never written out as a
\* single gzip stream; any other suffix raises the unsupported-format error
\* and leaves the disk as it was.
C7_DispatchBySuffix ==
    [][Extracts =>
        LET n == xcall'.name
            tar == EndsWith(n, SufTarGz) \/ EndsWith(n, SufTgz)
            zip == EndsWith(n, SufZip)
            gz == EndsWith(n, SufGz)
            stripped == <<SrcDir, SubSeq(n, 1, Len(n) - 3)>>
        IN  /\ tar => xcall'.handler = "tar"
            /\ (~tar /\ zip) => xcall'.handler = "zip"
            /\ (~tar /\ ~zip /\ gz) => xcall'.handler = "gz"
            /\ EndsWith(n, SufTarGz) => At(disk', stripped) = At(disk, stripped)
            /\ (~tar /\ ~zip /\ ~gz) =>
                  /\ xcall'.handler = "unsupported"
                  /\ xcall'.err = "NotImplementedError"
                  /\ xcall'.files = <<>>
                  /\ disk' = disk]_vars

C7_Witness ==
    /\ xcall.name = RarR.name /\ xcall.err = "NotImplementedError"
    /\ \E to \in {SrcDir, <<"out">>} :
          /\ <<TarA.name, to>> \in DOMAIN xfirst
          /\ At(disk, <<to, <<"f">> >>).kind = "file"

\* C8 as stated: the listing of a zip extraction is, in namelist order, every
\* file entry of the namelist (directory entries left out), each a regular
\* file on disk.
C8_Original ==
    (xcall.handler = "zip" /\ xcall.err = "none") =>
        /\ xcall.files = PathsOf(ArchiveNamed(xcall.name).entries, xcall.to,
                                 FileMembers(ArchiveNamed(xcall.name).entries))
        /\ \A p \in Range(xcall.files) : At(disk, p).kind = "file"

\* C8, amended: the listing is, in namelist order, exactly the entries whose
\* path is a regular file on disk after the extraction: no directory entry,
\* and a file entry if it was freshly written or skipped because a regular
\* file was already there; a file entry skipped because a directory was
\* already at its path is left out.
C8_ListingIsFilesOnDisk ==
    [][LET c == xcall'
           entries == ArchiveNamed(c.name).entries
           filesAfter == {m \in FileMembers(entries) :
                             At(disk', <<c.to, m.name>>).kind = "file"}
       IN  (Extracts /\ c.handler = "zip" /\ c.err = "none") =>
             /\ c.files = PathsOf(entries, c.to, filesAfter)
             /\ \A i \in DOMAIN entries :
                   LET m == entries[i]
                       p == <<c.to, m.name>>
                       before == At(disk, <<c.to, NormName(m.name)>>).kind
                   IN  /\ m.kind = "dir" => p \notin Range(c.files)
                       /\ (m.kind = "file" /\ before \in {"absent", "file"}) =>
                             p \in Range(c.files)
                       /\ (m.kind = "file" /\ before = "dir") =>
                             p \notin Range(c.files)]_vars

C8_Witness ==
    /\ xcall.name = ZipA.name /\ xcall.handler = "zip"
    /\ xcall.err = "none" /\ ~xcall.overwrite
    /\ xcall.files = << <<xcall.to, <<"f">> >>, <<xcall.to, <<"h">> >> >>
    /\ At(disk, <<xcall.to, <<"d">> >>).kind = "dir"
    /\ At(disk, <<xcall.to, <<"f">> >>) = FileEntry(<<1>>)
    /\ At(disk, <<xcall.to, <<"h">> >>) = FileEntry(<<1, 0>>)

\* C9 as stated: the output of single-file gzip extraction is the stream
\* followed by a second copy of its last non-empty block.
C9_Original ==
    (xcall.handler = "gz" /\ xcall.err = "none" /\ xcall.data # <<>>) =>
        At(disk, xcall.files[1]).data = xcall.data \o LastBlock(xcall.data)

\* C9, amended: the output file is the source name without its .gz suffix
\* and holds exactly the decompressed stream, block by block in read order;
\* the write after the loop writes the empty block that ended the loop, so
\* nothing is duplicated.
C9_GzipOutputIsStream ==
    (xcall.handler = "gz" /\ xcall.err = "none") =>
        /\ xcall.files = << <<SrcDir, SubSeq(xcall.name, 1, Len(xcall.name) - 3)>> >>
        /\ xcall.files[1][2] \o SufGz = xcall.name
        /\ At(disk, xcall.files[1]) = FileEntry(xcall.data)

C9_Witness ==
    /\ xcall.handler = "gz" /\ xcall.err = "none"
    /\ Len(xcall.data) > BlockSize /\ Len(xcall.data) % BlockSize # 0
    /\ At(disk, <<SrcDir, <<"w">> >>) = FileEntry(xcall.data)

(***************************************************************************)
(* Properties of the inference-mode toggle                                 *)
(***************************************************************************)
\* C10: at most one inference-mode context is open; start when started
\* changes nothing; reset after a start closes the context and returns to the
\* not-started state, and a later start opens a new one; reset when not
\* started raises and changes nothing.
C10_TwoStateToggle ==
    /\ [](/\ Cardinality(openCtx) <= 1
          /\ openCtx = IF STACK = 0 THEN {} ELSE {STACK})
    /\ [][LET op == infLog'[Len(infLog')]
          IN  /\ (op = "start" /\ STACK # 0) =>
                    /\ STACK' = STACK /\ openCtx' = openCtx /\ nctx' = nctx
                    /\ infResult' = "ok"
              /\ (op = "start" /\ STACK = 0) =>
                    /\ STACK' \notin 0..nctx
                    /\ openCtx' = {STACK'}
                    /\ infResult' = "ok"
              /\ (op = "reset" /\ STACK # 0) =>
                    /\ STACK' = 0 /\ openCtx' = {}
                    /\ infResult' = "ok"
              /\ (op = "reset" /\ STACK = 0) =>
                    /\ STACK' = 0 /\ openCtx' = openCtx
                    /\ infResult' = "AttributeError"]_vars

C10_Witness ==
    /\ infResult = "AttributeError"
    /\ STACK = 0 /\ openCtx = {}
    /\ nctx = 2
    /\ Len(infLog) >= 5
====
